---- MODULE Spec2Model ----
(***************************************************************************)
(* Model of ttli3/terminal-coding-agent.                                   *)
(*                                                                         *)
(* The repository holds two agent programs:                                *)
(*   "main" : the single-file program, package main,                       *)
(*            src/unnamed/part_001 lines 1-585 (Run, executeTool,          *)
(*            runInference and the five tools in one file);                *)
(*   "pkg"  : package agent, src/pkg/agent/agent.go, with the tools of     *)
(*            package tools (src/pkg/tools, src/unnamed/part_003), started *)
(*            by the second main function (part_001 lines 586-634).        *)
(*                                                                         *)
(* Spec     is the agent loop of both programs (impl is chosen in Init).   *)
(* SpecDiff is the line diff engine of both programs.                      *)
(* SpecTools is one call of EditFile, GenerateDiff or RunCommand of         *)
(*          package tools.                                                 *)
(***************************************************************************)
EXTENDS Integers, Sequences, FiniteSets, TLC

(* ------------------------------ bounds --------------------------------- *)
\* inference calls issued in one run
MaxInfer == 2
\* content blocks the model sends over one run
MaxBlocks == 2
\* timer ticks during one inference call
MaxTicks == 1
\* lines in one side of a diff
MaxLen == 3
\* characters in the content of a file and in a text given to generate_diff
MaxText == 3
\* characters in the old_str and in the new_str given to edit_file
MaxStr == 2

VARIABLES
    impl,           \* which program runs: "main" or "pkg"
    pc,             \* position of the controlling path inside Agent.Run
    conversation,   \* Run's local slice of messages
    readUserInput,  \* Run's flag of the single-file program
    goroutine,      \* the goroutine spawned by runInference
    resultCh,       \* value the goroutine offers on the unbuffered channel
    result,         \* value received from resultCh by the select
    ticks,          \* ticks taken by the select of the running runInference
    indicator,      \* state of the progress line on the terminal
    message,        \* Content of the response being processed
    idx,            \* index of the next content block to process
    toolResults,    \* Run's toolResults slice of the single-file program
    events,         \* prints and dispatches made for the current response
    response,       \* Content of the last response as it was received
    respPos,        \* index at which conversation holds that response
    convAtCall,     \* conversation passed to the current inference call
    lastInput,      \* what the last getUserMessage call returned
    nPrompts,       \* calls of getUserMessage so far
    retErr,         \* what Run returned
    nInfer,         \* inference calls issued so far
    nBlocks,        \* content blocks received from the model so far
    dO,             \* diff engine: originalLines
    dM,             \* diff engine: modifiedLines
    dpc,            \* diff engine: position
    lcs,            \* diff engine: result of longestCommonSubsequence
    rendering,      \* diff engine: lines written by the walk over lcs
    tcall,          \* tools: the tool called and the input it is given
    fs,             \* tools: the file system
    proc,           \* tools: how the subprocess of run_command ended
    ret,            \* tools: what the tool function returned
    osCalls,        \* tools: the functions of package os the call ran
    aligned,        \* tools: the line sequences the call aligned
    tpc             \* tools: position of the call

agentVars == <<impl, pc, conversation, readUserInput, goroutine, resultCh,
               result, ticks, indicator, message, idx, toolResults, events,
               response, respPos, convAtCall, lastInput, nPrompts, retErr, nInfer,
               nBlocks>>
diffVars == <<dO, dM, dpc, lcs, rendering>>
toolVars == <<tcall, fs, proc, ret, osCalls, aligned, tpc>>
vars == <<impl, pc, conversation, readUserInput, goroutine, resultCh,
          result, ticks, indicator, message, idx, toolResults, events,
          response, respPos, convAtCall, lastInput, nPrompts, retErr, nInfer,
          nBlocks, dO, dM, dpc, lcs, rendering,
          tcall, fs, proc, ret, osCalls, aligned, tpc>>

(* --------------------------- content blocks ---------------------------- *)
Impls == {"main", "pkg"}

\* the five registered tool specifications
ToolNames == {"read_file", "list_files", "edit_file", "run_command", "generate_diff"}

\* names the model may ask for that no specification carries
UnknownNames == {"fly", "swim"}

\* raw inputs: one that decodes into the tool's input struct, one that does not
RawInputs == {"valid", "malformed"}

TextBlock == [type |-> "text"]

ToolUseBlock(id, name, input) ==
    [type |-> "tool_use", id |-> id, name |-> name, input |-> input]

NewToolResultBlock(id, content, isError) ==
    [type |-> "tool_result", id |-> id, content |-> content, isError |-> isError]

NoBlock == [type |-> "none"]

IsToolUse(b) == b.type = "tool_use"
IsToolResult(b) == b.type = "tool_result"
IsText(b) == b.type = "text"

NewUserMessage(blocks) == [role |-> "user", content |-> blocks]
AssistantMessage(blocks) == [role |-> "assistant", content |-> blocks]

\* the text a tool function returns, and the text of the error it returns
ResultText(name, input) == <<"result of ", name, input>>
ErrorText(name, input) == <<"error of ", name, input>>

(* ------------------------- the tool functions -------------------------- *)
(* A tool function is modelled by what the agent loop sees of it: the set  *)
(* of ways a call on a raw input can end.  "ok" is (result, nil), "err" is *)
(* ("", err), "panic" is a panic that leaves the function.  Which of "ok"  *)
(* and "err" a decodable input gives is decided by the file system or the  *)
(* command, which the loop does not control.                               *)

\* single-file program: json.Unmarshal failure panics
mainReadFile(input) ==
    IF input = "malformed" THEN {"panic"} ELSE {"ok", "err"}

\* single-file program: json.Unmarshal failure panics
mainListFiles(input) ==
    IF input = "malformed" THEN {"panic"} ELSE {"ok", "err"}

mainEditFile(input) ==
    IF input = "malformed" THEN {"err"} ELSE {"ok", "err"}

\* "err" on a decodable input is the empty command; a failing command is "ok"
mainRunCommand(input) ==
    IF input = "malformed" THEN {"err"} ELSE {"ok", "err"}

mainGenerateDiff(input) ==
    IF input = "malformed" THEN {"err"} ELSE {"ok"}

\* package tools: read_file.go is not among the sources
toolsReadFile(input) ==
    IF input = "malformed" THEN {"err"} ELSE {"ok", "err"}

toolsListFiles(input) ==
    IF input = "malformed" THEN {"err"} ELSE {"ok", "err"}

toolsEditFile(input) ==
    IF input = "malformed" THEN {"err"} ELSE {"ok", "err"}

toolsRunCommand(input) ==
    IF input = "malformed" THEN {"err"} ELSE {"ok", "err"}

toolsGenerateDiff(input) ==
    IF input = "malformed" THEN {"err"} ELSE {"ok"}

\* the tools slice handed to NewAgent by each main function: name -> Function
mainTools(name, input) ==
    CASE name = "read_file" -> mainReadFile(input)
      [] name = "list_files" -> mainListFiles(input)
      [] name = "edit_file" -> mainEditFile(input)
      [] name = "run_command" -> mainRunCommand(input)
      [] name = "generate_diff" -> mainGenerateDiff(input)

GetAllTools(name, input) ==
    CASE name = "read_file" -> toolsReadFile(input)
      [] name = "list_files" -> toolsListFiles(input)
      [] name = "edit_file" -> toolsEditFile(input)
      [] name = "run_command" -> toolsRunCommand(input)
      [] name = "generate_diff" -> toolsGenerateDiff(input)

(* ----------------------------- executeTool ----------------------------- *)
(* executeTool looks the name up, calls the Function and wraps what it     *)
(* returns.  The ways the call can end are the Function's; "notfound" is   *)
(* the lookup that fails, in which no Function is called.                  *)

mainExecuteToolOutcomes(name, input) ==
    IF name \notin ToolNames THEN {"notfound"} ELSE mainTools(name, input)

\* executeTool as it would be if the result did not take the identifier over
mainExecuteToolLosesId(id, name, input, outcome) ==
    CASE outcome = "notfound" -> NewToolResultBlock(<<0, 0>>, <<"tool not found">>, TRUE)
      [] outcome = "err" -> NewToolResultBlock(<<0, 0>>, ErrorText(name, input), TRUE)
      [] outcome = "ok" -> NewToolResultBlock(<<0, 0>>, ResultText(name, input), FALSE)
      [] outcome = "panic" -> NoBlock

mainExecuteTool(id, name, input, outcome) ==
    CASE outcome = "notfound" -> NewToolResultBlock(id, <<"tool not found">>, TRUE)
      [] outcome = "err" -> NewToolResultBlock(id, ErrorText(name, input), TRUE)
      [] outcome = "ok" -> NewToolResultBlock(id, ResultText(name, input), FALSE)
      [] outcome = "panic" -> NoBlock

pkgExecuteToolOutcomes(name, input) ==
    IF name \notin ToolNames THEN {"notfound"} ELSE GetAllTools(name, input)

\* ToolResultBlockParam is built without its error flag, which stays false
pkgExecuteTool(id, name, input, outcome) ==
    CASE outcome = "notfound" ->
            NewToolResultBlock(id, <<"Error: Tool ", name, " not found">>, FALSE)
      [] outcome = "err" ->
            NewToolResultBlock(id, <<"Error: ">> \o ErrorText(name, input), FALSE)
      [] outcome = "ok" -> NewToolResultBlock(id, ResultText(name, input), FALSE)
      [] outcome = "panic" -> NoBlock

(* ------------------------------ events --------------------------------- *)
PrintEvent(i) == [kind |-> "print", block |-> i]

PrintResultEvent(i) == [kind |-> "print_result", block |-> i]

DispatchEvent(i, b, outcome, res) ==
    [kind |-> "dispatch", block |-> i, id |-> b.id, name |-> b.name,
     input |-> b.input, outcome |-> outcome, result |-> res]

ToolUsesOf(content) == SelectSeq(content, IsToolUse)

IdsOf(blocks) == [i \in 1..Len(blocks) |-> blocks[i].id]

(* -------------------------- the model's answers ------------------------ *)
BlockShapes ==
    {TextBlock} \cup
    {[type |-> "tool_use", name |-> n, input |-> in] :
        n \in ToolNames \cup UnknownNames, in \in RawInputs}

\* the provider gives every tool_use block of a run its own identifier
WithIds(call, shapes) ==
    [i \in 1..Len(shapes) |->
        IF shapes[i].type = "tool_use"
        THEN ToolUseBlock(<<call, i>>, shapes[i].name, shapes[i].input)
        ELSE shapes[i]]

Contents(call, budget) ==
    UNION {{WithIds(call, sh) : sh \in [1..n -> BlockShapes]} : n \in 0..budget}

NoResult == [received |-> FALSE]

\* what Messages.New returns: (message, nil) or (nil, err)
ApiResults(call, budget) ==
    {[received |-> TRUE, hasMessage |-> TRUE, content |-> c, err |-> FALSE] :
        c \in Contents(call, budget)}
    \cup {[received |-> TRUE, hasMessage |-> FALSE, content |-> <<>>, err |-> TRUE]}

(* ------------------------------- Init ---------------------------------- *)
\* pkg/agent starts the conversation with an instruction in a user message
FirstConversation(i) ==
    IF i = "pkg" THEN <<NewUserMessage(<<TextBlock>>)>> ELSE <<>>

DiffIdle ==
    /\ dO = <<>>
    /\ dM = <<>>
    /\ dpc = "idle"
    /\ lcs = <<>>
    /\ rendering = <<>>

\* no tool function is under study
ToolIdle ==
    /\ tcall = [name |-> "none"]
    /\ fs = <<>>
    /\ proc = [started |-> FALSE]
    /\ ret = [err |-> "none"]
    /\ osCalls = <<>>
    /\ aligned = <<>>
    /\ tpc = "idle"

Init ==
    /\ impl \in Impls
    /\ pc = "loop"
    /\ conversation = FirstConversation(impl)
    /\ readUserInput = TRUE
    /\ goroutine = "none"
    /\ resultCh = NoResult
    /\ result = NoResult
    /\ ticks = 0
    /\ indicator = "clear"
    /\ message = <<>>
    /\ idx = 0
    /\ toolResults = <<>>
    /\ events = <<>>
    /\ response = <<>>
    /\ respPos = 0
    /\ convAtCall = <<>>
    /\ lastInput = "none"
    /\ nPrompts = 0
    /\ retErr = "none"
    /\ nInfer = 0
    /\ nBlocks = 0
    /\ DiffIdle
    /\ ToolIdle

(* --------------------------- Agent.Run, loop head ---------------------- *)
\* getUserMessage returns ("", false): break, return nil
EndOfStream ==
    /\ pc = "loop"
    /\ impl = "pkg" \/ readUserInput
    /\ pc' = "done"
    /\ retErr' = "nil"
    /\ lastInput' = "eof"
    /\ nPrompts' = nPrompts + 1
    /\ UNCHANGED <<impl, conversation, readUserInput, goroutine, resultCh,
                   result, ticks, indicator, message, idx, toolResults,
                   events, response, respPos, convAtCall, nInfer, nBlocks>>
    /\ UNCHANGED <<diffVars, toolVars>>

\* getUserMessage as it would be if Run also read the user while runInference
\* waits in its select
GetUserMessageWhileWaiting ==
    /\ pc \in {"loop", "select"}
    /\ impl = "pkg" \/ readUserInput
    /\ nInfer < MaxInfer
    /\ conversation' = Append(conversation, NewUserMessage(<<TextBlock>>))
    /\ lastInput' = "line"
    /\ nPrompts' = nPrompts + 1
    /\ pc' = "infer"
    /\ UNCHANGED <<impl, readUserInput, goroutine, resultCh, result, ticks,
                   indicator, message, idx, toolResults, events, response,
                   respPos, convAtCall, retErr, nInfer, nBlocks>>
    /\ UNCHANGED <<diffVars, toolVars>>

\* getUserMessage returns a line: it is appended as a user message
GetUserMessage ==
    /\ pc = "loop"
    /\ impl = "pkg" \/ readUserInput
    /\ nInfer < MaxInfer
    /\ conversation' = Append(conversation, NewUserMessage(<<TextBlock>>))
    /\ lastInput' = "line"
    /\ nPrompts' = nPrompts + 1
    /\ pc' = "infer"
    /\ UNCHANGED <<impl, readUserInput, goroutine, resultCh, result, ticks,
                   indicator, message, idx, toolResults, events, response,
                   respPos, convAtCall, retErr, nInfer, nBlocks>>
    /\ UNCHANGED <<diffVars, toolVars>>

\* the loop as it would be if it went to runInference without reading the
\* user whatever readUserInput holds
SkipUserInputAlways ==
    /\ pc = "loop"
    /\ impl = "main"
    /\ pc' = "infer"
    /\ UNCHANGED <<impl, conversation, readUserInput, goroutine, resultCh,
                   result, ticks, indicator, message, idx, toolResults,
                   events, response, respPos, convAtCall, lastInput, nPrompts, retErr,
                   nInfer, nBlocks>>
    /\ UNCHANGED <<diffVars, toolVars>>

\* single-file program, readUserInput false: the loop goes straight to
\* runInference
SkipUserInput ==
    /\ pc = "loop"
    /\ impl = "main"
    /\ ~readUserInput
    /\ pc' = "infer"
    /\ UNCHANGED <<impl, conversation, readUserInput, goroutine, resultCh,
                   result, ticks, indicator, message, idx, toolResults,
                   events, response, respPos, convAtCall, lastInput, nPrompts, retErr,
                   nInfer, nBlocks>>
    /\ UNCHANGED <<diffVars, toolVars>>

(* ------------------------------ runInference --------------------------- *)
\* make the channel, start the goroutine and the ticker, enter the select
StartInference ==
    /\ pc = "infer"
    /\ nInfer < MaxInfer
    /\ nInfer' = nInfer + 1
    /\ goroutine' = "calling"
    /\ resultCh' = NoResult
    /\ result' = NoResult
    /\ ticks' = 0
    /\ convAtCall' = conversation
    /\ pc' = "select"
    /\ UNCHANGED <<impl, conversation, readUserInput, indicator, message, idx,
                   toolResults, events, response, respPos, lastInput, nPrompts, retErr,
                   nBlocks>>
    /\ UNCHANGED <<diffVars, toolVars>>

\* the goroutine: Messages.New returns and the goroutine offers the result
ApiReturns ==
    /\ goroutine = "calling"
    /\ \E r \in ApiResults(nInfer, MaxBlocks - nBlocks) :
          /\ resultCh' = r
          /\ nBlocks' = nBlocks + Len(r.content)
    /\ goroutine' = "sending"
    /\ UNCHANGED <<impl, pc, conversation, readUserInput, result, ticks,
                   indicator, message, idx, toolResults, events, response,
                   respPos, convAtCall, lastInput, nPrompts, retErr, nInfer>>
    /\ UNCHANGED <<diffVars, toolVars>>

\* case <-ticker.C: repaint the elapsed time
Tick ==
    /\ pc = "select"
    /\ ticks < MaxTicks
    /\ ticks' = ticks + 1
    /\ indicator' = "painted"
    /\ UNCHANGED <<impl, pc, conversation, readUserInput, goroutine, resultCh,
                   result, message, idx, toolResults, events, response,
                   respPos, convAtCall, lastInput, nPrompts, retErr, nInfer, nBlocks>>
    /\ UNCHANGED <<diffVars, toolVars>>

(* ------------------- single-file program: after the select ------------- *)
\* Message.ToParam: every block of the response becomes its param block
ToParam(content) ==
    [i \in 1..Len(content) |->
        IF IsToolUse(content[i])
        THEN ToolUseBlock(content[i].id, content[i].name, content[i].input)
        ELSE TextBlock]

\* the receive as it would be if Run left the loop with break on an error
mainReceiveResultSwallowsError ==
    /\ impl = "main"
    /\ pc = "select"
    /\ goroutine = "sending"
    /\ result' = resultCh
    /\ goroutine' = "exited"
    /\ indicator' = "clear"
    /\ ticks' = 0
    /\ IF resultCh.err
       THEN /\ pc' = "done"
            /\ retErr' = "nil"
            /\ UNCHANGED <<conversation, message, idx, toolResults, events,
                           response, respPos>>
       ELSE /\ conversation' = Append(conversation,
                                      AssistantMessage(ToParam(resultCh.content)))
            /\ respPos' = Len(conversation) + 1
            /\ response' = resultCh.content
            /\ message' = resultCh.content
            /\ idx' = 1
            /\ toolResults' = <<>>
            /\ events' = <<>>
            /\ pc' = "content"
            /\ UNCHANGED retErr
    /\ UNCHANGED <<impl, readUserInput, resultCh, convAtCall, lastInput,
                   nPrompts, nInfer, nBlocks>>
    /\ UNCHANGED <<diffVars, toolVars>>

\* case result := <-resultCh: runInference returns (message, err), the
\* deferred function clears the line; Run returns err or appends the message
mainReceiveResult ==
    /\ impl = "main"
    /\ pc = "select"
    /\ goroutine = "sending"
    /\ result' = resultCh
    /\ goroutine' = "exited"
    /\ indicator' = "clear"
    /\ ticks' = 0
    /\ IF resultCh.err
       THEN /\ pc' = "failed"
            /\ retErr' = "err"
            /\ UNCHANGED <<conversation, message, idx, toolResults, events,
                           response, respPos>>
       ELSE /\ conversation' = Append(conversation,
                                      AssistantMessage(ToParam(resultCh.content)))
            /\ respPos' = Len(conversation) + 1
            /\ response' = resultCh.content
            /\ message' = resultCh.content
            /\ idx' = 1
            /\ toolResults' = <<>>
            /\ events' = <<>>
            /\ pc' = "content"
            /\ UNCHANGED retErr
    /\ UNCHANGED <<impl, readUserInput, resultCh, convAtCall, lastInput,
                   nPrompts,
                   nInfer, nBlocks>>
    /\ UNCHANGED <<diffVars, toolVars>>

\* one turn of the loop over message.Content: a text block is printed, a
\* tool_use block is executed and its result collected
mainContentBlock ==
    /\ impl = "main"
    /\ pc = "content"
    /\ idx <= Len(message)
    /\ idx' = idx + 1
    /\ LET b == message[idx] IN
       IF IsToolUse(b)
       THEN \E o \in mainExecuteToolOutcomes(b.name, b.input) :
               LET res == mainExecuteTool(b.id, b.name, b.input, o) IN
               /\ events' = Append(events, DispatchEvent(idx, b, o, res))
               /\ IF o = "panic"
                  THEN pc' = "panic" /\ UNCHANGED toolResults
                  ELSE toolResults' = Append(toolResults, res) /\ UNCHANGED pc
       ELSE /\ events' = Append(events, PrintEvent(idx))
            /\ UNCHANGED <<pc, toolResults>>
    /\ UNCHANGED <<impl, conversation, readUserInput, goroutine, resultCh,
                   result, ticks, indicator, message, response, respPos,
                   convAtCall, lastInput, nPrompts, retErr, nInfer, nBlocks>>
    /\ UNCHANGED <<diffVars, toolVars>>

\* the end of the loop as it would be if readUserInput were set after tool
\* results too
mainContentDoneReadsUser ==
    /\ impl = "main"
    /\ pc = "content"
    /\ idx > Len(message)
    /\ pc' = "loop"
    /\ readUserInput' = TRUE
    /\ IF Len(toolResults) = 0
       THEN UNCHANGED conversation
       ELSE conversation' = Append(conversation, NewUserMessage(toolResults))
    /\ UNCHANGED <<impl, goroutine, resultCh, result, ticks, indicator,
                   message, idx, toolResults, events, response, respPos,
                   convAtCall, lastInput, nPrompts, retErr, nInfer, nBlocks>>
    /\ UNCHANGED <<diffVars, toolVars>>

\* after the loop: no tool result, read the user again; otherwise append the
\* tool results as one user message and do not read the user
mainContentDone ==
    /\ impl = "main"
    /\ pc = "content"
    /\ idx > Len(message)
    /\ pc' = "loop"
    /\ IF Len(toolResults) = 0
       THEN readUserInput' = TRUE /\ UNCHANGED conversation
       ELSE /\ readUserInput' = FALSE
            /\ conversation' = Append(conversation, NewUserMessage(toolResults))
    /\ UNCHANGED <<impl, goroutine, resultCh, result, ticks, indicator,
                   message, idx, toolResults, events, response, respPos,
                   convAtCall, lastInput, nPrompts, retErr, nInfer, nBlocks>>
    /\ UNCHANGED <<diffVars, toolVars>>

(* ----------------------- pkg/agent: after the select ------------------- *)
\* case result := <-resultCh: the loop over result.message.Content starts;
\* a nil message makes it panic (the deferred functions still run)
pkgReceiveResult ==
    /\ impl = "pkg"
    /\ pc = "select"
    /\ goroutine = "sending"
    /\ result' = resultCh
    /\ goroutine' = "exited"
    /\ IF ~resultCh.hasMessage
       THEN /\ pc' = "panic"
            /\ indicator' = "clear"
            /\ ticks' = 0
            /\ UNCHANGED <<message, idx, events, response>>
       ELSE /\ pc' = "toolcalls"
            /\ message' = resultCh.content
            /\ response' = resultCh.content
            /\ idx' = 1
            /\ events' = <<>>
            /\ UNCHANGED <<indicator, ticks>>
    /\ UNCHANGED <<impl, conversation, readUserInput, resultCh,
                   toolResults, respPos, convAtCall, lastInput, nPrompts, retErr, nInfer,
                   nBlocks>>
    /\ UNCHANGED <<diffVars, toolVars>>

\* one turn of the loop inside runInference: a tool_use block is executed and
\* replaced in the message by its result
pkgToolCall ==
    /\ impl = "pkg"
    /\ pc = "toolcalls"
    /\ idx <= Len(message)
    /\ idx' = idx + 1
    /\ LET b == message[idx] IN
       IF IsToolUse(b)
       THEN \E o \in pkgExecuteToolOutcomes(b.name, b.input) :
               LET res == pkgExecuteTool(b.id, b.name, b.input, o) IN
               /\ events' = Append(events, DispatchEvent(idx, b, o, res))
               /\ message' = [message EXCEPT ![idx] = res]
       ELSE UNCHANGED <<events, message>>
    /\ UNCHANGED <<impl, pc, conversation, readUserInput, goroutine, resultCh,
                   result, ticks, indicator, toolResults, response, respPos,
                   convAtCall, lastInput, nPrompts, retErr, nInfer, nBlocks>>
    /\ UNCHANGED <<diffVars, toolVars>>

\* formatResponse as it would be if it walked the blocks from the last one
formatResponseReversed(content) ==
    LET shown == SelectSeq([i \in 1..Len(content) |-> Len(content) + 1 - i],
                           LAMBDA i : IsText(content[i]) \/ IsToolResult(content[i]))
    IN [k \in 1..Len(shown) |->
           IF IsText(content[shown[k]])
           THEN PrintEvent(shown[k])
           ELSE PrintResultEvent(shown[k])]

\* formatResponse: the text blocks and the tool results, in block order
formatResponse(content) ==
    LET shown == SelectSeq([i \in 1..Len(content) |-> i],
                           LAMBDA i : IsText(content[i]) \/ IsToolResult(content[i]))
    IN [k \in 1..Len(shown) |->
           IF IsText(content[shown[k]])
           THEN PrintEvent(shown[k])
           ELSE PrintResultEvent(shown[k])]

\* the return as it would be if Run stored the response over the last message
pkgInferenceReturnsOverwrites ==
    /\ impl = "pkg"
    /\ pc = "toolcalls"
    /\ idx > Len(message)
    /\ indicator' = "clear"
    /\ ticks' = 0
    /\ IF result.err
       THEN /\ pc' = "failed"
            /\ retErr' = "err"
            /\ UNCHANGED <<conversation, respPos, events>>
       ELSE /\ conversation' = [conversation EXCEPT
                                   ![Len(conversation)] = AssistantMessage(message)]
            /\ respPos' = Len(conversation)
            /\ events' = events \o formatResponse(message)
            /\ pc' = "loop"
            /\ UNCHANGED retErr
    /\ UNCHANGED <<impl, readUserInput, goroutine, resultCh, result,
                   message, idx, toolResults, response, convAtCall, lastInput, nPrompts,
                   nInfer, nBlocks>>
    /\ UNCHANGED <<diffVars, toolVars>>

\* runInference returns (result.message, result.err); Run returns err, or
\* appends the message as the assistant's and prints it.  The loop before it
\* has already dereferenced the message, so with Messages.New returning
\* (nil, err) on failure the err branch is never reached.
pkgInferenceReturns ==
    /\ impl = "pkg"
    /\ pc = "toolcalls"
    /\ idx > Len(message)
    /\ indicator' = "clear"
    /\ ticks' = 0
    /\ IF result.err
       THEN /\ pc' = "failed"
            /\ retErr' = "err"
            /\ UNCHANGED <<conversation, respPos, events>>
       ELSE /\ conversation' = Append(conversation, AssistantMessage(message))
            /\ respPos' = Len(conversation) + 1
            /\ events' = events \o formatResponse(message)
            /\ pc' = "loop"
            /\ UNCHANGED retErr
    /\ UNCHANGED <<impl, readUserInput, goroutine, resultCh, result,
                   message, idx, toolResults, response, convAtCall, lastInput, nPrompts,
                   nInfer, nBlocks>>
    /\ UNCHANGED <<diffVars, toolVars>>

(* ------------------------------ the agent ------------------------------ *)
Next ==
    \/ EndOfStream
    \/ GetUserMessage
    \/ SkipUserInput
    \/ StartInference
    \/ ApiReturns
    \/ Tick
    \/ mainReceiveResult
    \/ mainContentBlock
    \/ mainContentDone
    \/ pkgReceiveResult
    \/ pkgToolCall
    \/ pkgInferenceReturns

Spec == Init /\ [][Next]_vars

\* The controlling path of runInference keeps running: the select takes the
\* result once the goroutine offers it (a tick does not withdraw the offer,
\* and select picks among the ready cases at random), and the loop over the
\* content and the return are straight-line code.  Nothing is assumed of
\* Messages.New, of the user or of the ticker.
FairSpec ==
    /\ Spec
    /\ WF_vars(mainReceiveResult)
    /\ WF_vars(pkgReceiveResult)
    /\ WF_vars(pkgToolCall)
    /\ WF_vars(pkgInferenceReturns)

(* ======================= properties of the agent ======================= *)
RECURSIVE BlocksFrom(_, _)
\* the content blocks of the messages conv[p], conv[p+1], ..., in order
BlocksFrom(conv, p) ==
    IF p > Len(conv) THEN <<>> ELSE conv[p].content \o BlocksFrom(conv, p + 1)

IsDispatch(e) == e.kind = "dispatch"
IsPrint(e) == e.kind = "print"

Dispatches == SelectSeq(events, IsDispatch)

\* a response has been received and handled up to the loop head
Handled == respPos > 0

\* the next thing Run does is to call getUserMessage
AwaitingUserInput == pc = "loop" /\ (impl = "pkg" \/ readUserInput)

LastMessage == conversation[Len(conversation)]

IsPrefix(s, t) ==
    /\ Len(s) <= Len(t)
    /\ \A i \in 1..Len(s) : s[i] = t[i]

\* C1: for every response R handled by Run, in both programs: the tools
\* dispatched for R are R's tool_use blocks, each once and in block order
\* (none when R has no tool_use block); after a response without tool_use
\* the next action is reading the user; and when the next inference call is
\* about to be issued the conversation holds, from R's message on, exactly
\* one tool_result per tool_use block of R, in the same order, each with the
\* identifier of its tool_use block.
C1_OneResultPerToolUse ==
    /\ IsPrefix(IdsOf(Dispatches), IdsOf(ToolUsesOf(response)))
    /\ (pc = "loop" /\ Handled /\ Len(ToolUsesOf(response)) = 0)
          => (AwaitingUserInput /\ Len(Dispatches) = 0)
    /\ (pc = "infer" /\ Handled)
          => IdsOf(SelectSeq(BlocksFrom(conversation, respPos), IsToolResult))
                = IdsOf(ToolUsesOf(response))

\* a response with two tool_use blocks has been handled and the next
\* inference call is about to be issued
C1_Witness ==
    /\ pc = "infer"
    /\ Handled
    /\ Len(ToolUsesOf(response)) = 2
    /\ Len(SelectSeq(BlocksFrom(conversation, respPos), IsToolResult)) = 2

\* C2: in the single-file program, once the tools of a response have been
\* dispatched Run appends exactly one user message, made of the tool_result
\* blocks, and goes to the next inference call without calling
\* getUserMessage; getUserMessage is called only on the empty conversation
\* and after a response without tool_use block.
C2_ToolResultsThenInference ==
    /\ [](impl = "main" /\ Handled /\ Len(ToolUsesOf(response)) > 0
            /\ pc \in {"loop", "infer"}
          => /\ ~AwaitingUserInput
             /\ Len(conversation) = respPos + 1
             /\ LastMessage = NewUserMessage(toolResults)
             /\ Len(toolResults) = Len(ToolUsesOf(response))
             /\ \A i \in 1..Len(toolResults) : IsToolResult(toolResults[i]))
    /\ [][impl = "main" /\ nPrompts' # nPrompts
            => \/ conversation = <<>>
               \/ /\ LastMessage.role = "assistant"
                  /\ Len(ToolUsesOf(LastMessage.content)) = 0]_vars

\* two tool-using responses in a row: the second inference call was issued
\* without a second prompt, and a third is about to be
C2_Witness ==
    /\ impl = "main"
    /\ pc = "infer"
    /\ nPrompts = 1
    /\ nInfer = 2
    /\ Len(ToolUsesOf(response)) > 0

\* C3: in pkg/agent, the user is prompted only after a response with no
\* tool use: whenever Run is about to call getUserMessage after a response,
\* that response has no tool_use block (tool results are first fed back by
\* a further inference call).
C3_PromptOnlyAfterNoToolUse ==
    (impl = "pkg" /\ AwaitingUserInput /\ Handled)
        => Len(ToolUsesOf(response)) = 0

\* C4: in both programs no two adjacent messages of the conversation have
\* the same role.
C4_RolesAlternate ==
    \A i \in 1..(Len(conversation) - 1) :
        conversation[i].role # conversation[i + 1].role

\* C5: when the inference call fails, Run returns that error: nothing is
\* appended to the conversation, no tool is dispatched for the call and the
\* user is not prompted again; in both programs.
C5_InferenceErrorReturned ==
    (result.received /\ result.err)
        => /\ pc = "failed"
           /\ retErr = "err"
           /\ conversation = convAtCall

\* C6: a failure of a registered tool's function, on any raw input, comes
\* back from the dispatcher as a tool_result that holds the error message
\* and has the error flag set; it never leaves the dispatcher.
C6_ToolFailureIsData ==
    \A k \in 1..Len(Dispatches) :
        LET e == Dispatches[k] IN
        (e.name \in ToolNames /\ e.outcome # "ok")
            => /\ e.outcome = "err"
               /\ pc # "panic"
               /\ IsToolResult(e.result)
               /\ e.result.isError
               /\ IsPrefix(ErrorText(e.name, e.input), e.result.content)
                    \/ e.result.content = <<"Error: ">> \o ErrorText(e.name, e.input)

\* C7: dispatching a tool_use whose name is not registered gives a
\* tool_result with the same identifier, the error flag set and an error
\* string that is the same for every name and input; no tool function runs.
C7_ToolNotFound ==
    \A k \in 1..Len(Dispatches) :
        LET e == Dispatches[k] IN
        e.name \notin ToolNames
            => /\ e.outcome = "notfound"
               /\ e.result.id = e.id
               /\ e.result.isError
               /\ \A j \in 1..Len(Dispatches) :
                     Dispatches[j].name \notin ToolNames
                        => Dispatches[j].result.content = e.result.content

\* Run has returned
Returned == pc \in {"done", "failed"}

\* C8 as stated: end-of-stream is the only way Run ends.
C8_OnlyEndOfStreamEnds ==
    Returned => (lastInput = "eof" /\ retErr = "nil")

\* C8, amended: Run returns nil only when getUserMessage signals
\* end-of-stream, and on end-of-stream it returns nil at once, with no
\* further inference call and no tool dispatch; Run also ends when an
\* inference call fails, and it returns an error only then.
C8_EndOfStreamReturnsNil ==
    /\ [](pc = "done" => (lastInput = "eof" /\ retErr = "nil"))
    /\ [](lastInput = "eof" => pc = "done")
    /\ [](pc = "failed" => (result.received /\ result.err /\ retErr = "err"))
    /\ []((result.received /\ result.err) => pc \in {"failed", "panic"})
    /\ [][lastInput' = "eof" /\ lastInput # "eof"
            => /\ AwaitingUserInput
               /\ nInfer' = nInfer
               /\ events' = events
               /\ goroutine' = goroutine
               /\ conversation' = conversation]_vars

\* end-of-stream after a full turn
C8_Witness ==
    /\ pc = "done"
    /\ nInfer > 0
    /\ Handled

Lines == {"a", "b", "c"}

LineSeqs == UNION {[1..n -> Lines] : n \in 0..MaxLen}

\* max as it would be if it returned its first argument
maxTakesFirst(a, b) == a

\* max returns the maximum of two integers
max(a, b) == IF a > b THEN a ELSE b

\* the table as it would be if unequal lines reset the length to zero
dpResets(originalLines, modifiedLines) ==
    LET m == Len(originalLines)
        n == Len(modifiedLines)
        t[i \in 0..m, j \in 0..n] ==
            IF i = 0 \/ j = 0 THEN 0
            ELSE IF originalLines[i] = modifiedLines[j]
                 THEN t[i - 1, j - 1] + 1
                 ELSE 0
    IN t

\* the table filled by the two nested loops: dp[i, j] for 0 <= i <= m,
\* 0 <= j <= n; row 0 and column 0 keep the zero make gave them
dp(originalLines, modifiedLines) ==
    LET m == Len(originalLines)
        n == Len(modifiedLines)
        t[i \in 0..m, j \in 0..n] ==
            IF i = 0 \/ j = 0 THEN 0
            ELSE IF originalLines[i] = modifiedLines[j]
                 THEN t[i - 1, j - 1] + 1
                 ELSE max(t[i - 1, j], t[i, j - 1])
    IN t

commonLine(oi, mi) == [originalIndex |-> oi, modifiedIndex |-> mi]

RECURSIVE backtrackKeepsJ(_, _, _, _, _, _)
\* the backtracking loop as it would be if a match stepped back in the
\* original only
backtrackKeepsJ(originalLines, modifiedLines, t, i, j, res) ==
    IF i > 0 /\ j > 0
    THEN IF originalLines[i] = modifiedLines[j]
         THEN backtrackKeepsJ(originalLines, modifiedLines, t, i - 1, j,
                              <<commonLine(i - 1, j - 1)>> \o res)
         ELSE IF t[i - 1, j] > t[i, j - 1]
              THEN backtrackKeepsJ(originalLines, modifiedLines, t, i - 1, j, res)
              ELSE backtrackKeepsJ(originalLines, modifiedLines, t, i, j - 1, res)
    ELSE res

RECURSIVE backtrack(_, _, _, _, _, _)
\* the backtracking loop, for i > 0 && j > 0; the indices stored are the
\* 0-based ones of the Go slices, the lines compared are [i-1] and [j-1]
backtrack(originalLines, modifiedLines, t, i, j, res) ==
    IF i > 0 /\ j > 0
    THEN IF originalLines[i] = modifiedLines[j]
         THEN backtrack(originalLines, modifiedLines, t, i - 1, j - 1,
                        <<commonLine(i - 1, j - 1)>> \o res)
         ELSE IF t[i - 1, j] > t[i, j - 1]
              THEN backtrack(originalLines, modifiedLines, t, i - 1, j, res)
              ELSE backtrack(originalLines, modifiedLines, t, i, j - 1, res)
    ELSE res

\* longestCommonSubsequence of package tools
longestCommonSubsequence(originalLines, modifiedLines) ==
    backtrack(originalLines, modifiedLines, dp(originalLines, modifiedLines),
              Len(originalLines), Len(modifiedLines), <<>>)

(* ---- longestCommonSubsequence of the single-file program (package main) ---- *)
\* modifiedMap[line]: the indices of line in modifiedLines, in increasing order
modifiedMap(modifiedLines, line) ==
    SelectSeq([j \in 1..Len(modifiedLines) |-> j - 1],
              LAMBDA j : modifiedLines[j + 1] = line)

RECURSIVE bestIndex(_, _, _, _, _)
\* the loop over indices, from its n-th element on: j is valid unless an
\* entry of common has a larger original index and a smaller modified index
bestIndex(indices, n, i, common, best) ==
    IF n > Len(indices) THEN best
    ELSE LET j == indices[n]
             valid == ~\E c \in 1..Len(common) :
                          /\ common[c].originalIndex > i
                          /\ common[c].modifiedIndex < j
         IN bestIndex(indices, n + 1, i, common,
                      IF valid /\ (best = -1 \/ best > j) THEN j ELSE best)

RECURSIVE mainCommon(_, _, _, _)
\* the loop over originalLines, from the 0-based index i on
mainCommon(originalLines, modifiedLines, i, common) ==
    IF i >= Len(originalLines) THEN common
    ELSE LET indices == modifiedMap(modifiedLines, originalLines[i + 1])
             best == bestIndex(indices, 1, i, common, -1)
         IN mainCommon(originalLines, modifiedLines, i + 1,
                       IF best # -1
                       THEN Append(common, commonLine(i, best))
                       ELSE common)

RECURSIVE sortSlice(_)
\* sort.Slice by originalIndex (the original indices are pairwise distinct)
sortSlice(common) ==
    IF common = <<>> THEN <<>>
    ELSE LET h == Head(common)
             rest == sortSlice(Tail(common))
         IN SelectSeq(rest, LAMBDA c : c.originalIndex < h.originalIndex)
            \o <<h>>
            \o SelectSeq(rest, LAMBDA c : ~(c.originalIndex < h.originalIndex))

mainLongestCommonSubsequence(originalLines, modifiedLines) ==
    sortSlice(mainCommon(originalLines, modifiedLines, 0, <<>>))

(* ------------------------ the walk over the alignment ------------------ *)
\* the value of a counter i after the loop "for i < bound { ...; i++ }"
\* the value of the index as it would be if the loop never ran
loopEndStays(i, bound) == i

loopEnd(i, bound) == IF i < bound THEN bound ELSE i

\* one line written to the strings.Builder: the sign that follows the colour
\* escape, and the line printed after it
diffLine(sign, line) == [sign |-> sign, line |-> line]

\* the lines from..to-1 as they would be written from the last to the first
writtenBackwards(sign, lines, from, to) ==
    [x \in 1..(to - from) |-> diffLine(sign, lines[to + 1 - x])]

\* the lines with 0-based indices from..to-1, each written with the sign
written(sign, lines, from, to) ==
    [x \in 1..(to - from) |-> diffLine(sign, lines[from + x])]

RECURSIVE walkFromStopsAtLast(_, _, _, _, _, _, _)
\* the walk as it would be without the two loops that follow the one over k
walkFromStopsAtLast(originalLines, modifiedLines, l, k, i, j, out) ==
    IF k <= Len(l)
    THEN LET i1 == loopEnd(i, l[k].originalIndex)
             j1 == loopEnd(j, l[k].modifiedIndex)
         IN walkFromStopsAtLast(originalLines, modifiedLines, l, k + 1,
                     i1 + 1, j1 + 1,
                     out \o written("-", originalLines, i, i1)
                         \o written("+", modifiedLines, j, j1)
                         \o <<diffLine(" ", originalLines[i1 + 1])>>)
    ELSE out

RECURSIVE walkFrom(_, _, _, _, _, _, _)
\* the loop over k (1-based here) with the current i, j and text written;
\* after it, the remaining deletions and the remaining additions
walkFrom(originalLines, modifiedLines, l, k, i, j, out) ==
    IF k <= Len(l)
    THEN LET i1 == loopEnd(i, l[k].originalIndex)
             j1 == loopEnd(j, l[k].modifiedIndex)
         IN walkFrom(originalLines, modifiedLines, l, k + 1, i1 + 1, j1 + 1,
                     out \o written("-", originalLines, i, i1)
                         \o written("+", modifiedLines, j, j1)
                         \o <<diffLine(" ", originalLines[i1 + 1])>>)
    ELSE out \o written("-", originalLines, i, loopEnd(i, Len(originalLines)))
             \o written("+", modifiedLines, j, loopEnd(j, Len(modifiedLines)))

\* the rendering loop shared by GenerateDiff and EditFile
walk(originalLines, modifiedLines, l) ==
    walkFrom(originalLines, modifiedLines, l, 1, 0, 0, <<>>)

AgentIdle ==
    /\ impl = "pkg"
    /\ pc = "idle"
    /\ conversation = <<>>
    /\ readUserInput = TRUE
    /\ goroutine = "none"
    /\ resultCh = NoResult
    /\ result = NoResult
    /\ ticks = 0
    /\ indicator = "clear"
    /\ message = <<>>
    /\ idx = 0
    /\ toolResults = <<>>
    /\ events = <<>>
    /\ response = <<>>
    /\ respPos = 0
    /\ convAtCall = <<>>
    /\ lastInput = "none"
    /\ nPrompts = 0
    /\ retErr = "none"
    /\ nInfer = 0
    /\ nBlocks = 0

InitDiff ==
    /\ dO \in LineSeqs
    /\ dM \in LineSeqs
    /\ dpc = "start"
    /\ lcs = <<>>
    /\ rendering = <<>>
    /\ AgentIdle
    /\ ToolIdle

\* lcs := longestCommonSubsequence(originalLines, modifiedLines)
Align ==
    /\ dpc = "start"
    /\ lcs' = longestCommonSubsequence(dO, dM)
    /\ dpc' = "aligned"
    /\ UNCHANGED <<dO, dM, rendering>>
    /\ UNCHANGED <<agentVars, toolVars>>

\* the rendering loop of package tools, on the alignment just computed
Walk ==
    /\ dpc = "aligned"
    /\ rendering' = walk(dO, dM, lcs)
    /\ dpc' = "rendered"
    /\ UNCHANGED <<dO, dM, lcs>>
    /\ UNCHANGED <<agentVars, toolVars>>

\* the single-file program: lcs := longestCommonSubsequence(...)
mainAlign ==
    /\ dpc = "start"
    /\ lcs' = mainLongestCommonSubsequence(dO, dM)
    /\ dpc' = "mainAligned"
    /\ UNCHANGED <<dO, dM, rendering>>
    /\ UNCHANGED <<agentVars, toolVars>>

\* the single-file program: the rendering loop
mainWalk ==
    /\ dpc = "mainAligned"
    /\ rendering' = walk(dO, dM, lcs)
    /\ dpc' = "mainRendered"
    /\ UNCHANGED <<dO, dM, lcs>>
    /\ UNCHANGED <<agentVars, toolVars>>

NextDiff ==
    \/ Align
    \/ Walk
    \/ mainAlign
    \/ mainWalk

SpecDiff == InitDiff /\ [][NextDiff]_vars

(* ========================= the tools on texts ========================== *)
(* A string is the sequence of its characters.                             *)
Chars == {"a", "\n"}

Texts(n) == UNION {[1..k -> Chars] : k \in 0..n}

\* strings.HasPrefix
HasPrefix(str, prefix) ==
    /\ Len(prefix) <= Len(str)
    /\ SubSeq(str, 1, Len(prefix)) = prefix

RECURSIVE Split(_)
\* strings.Split(str, "\n"): the pieces between the newlines; a string
\* without a newline, the empty one too, is one piece
Split(str) ==
    LET at == {k \in 1..Len(str) : str[k] = "\n"}
    IN IF at = {} THEN <<str>>
       ELSE LET k == CHOOSE x \in at : \A y \in at : x <= y
            IN <<SubSeq(str, 1, k - 1)>> \o Split(SubSeq(str, k + 1, Len(str)))

RECURSIVE ReplaceFirst(_, _, _)
\* strings.Replace as it would be with n = 1
ReplaceFirst(str, old, new) ==
    IF old = <<>> THEN new \o str
    ELSE IF HasPrefix(str, old)
         THEN new \o SubSeq(str, Len(old) + 1, Len(str))
         ELSE IF str = <<>> THEN <<>>
              ELSE <<Head(str)>> \o ReplaceFirst(Tail(str), old, new)

RECURSIVE Replace(_, _, _)
\* strings.Replace(str, old, new, -1): every non-overlapping instance of old,
\* found from the left; an empty old matches before every character and at
\* the end
Replace(str, old, new) ==
    IF old = <<>>
    THEN new \o (IF str = <<>> THEN <<>>
                 ELSE <<Head(str)>> \o Replace(Tail(str), old, new))
    ELSE IF HasPrefix(str, old)
         THEN new \o Replace(SubSeq(str, Len(old) + 1, Len(str)), old, new)
         ELSE IF str = <<>> THEN <<>>
              ELSE <<Head(str)>> \o Replace(Tail(str), old, new)

\* what a tool function returns: (result, error)
Return(res, err) == [result |-> res, err |-> err]

\* the result of a failed call is the empty string
NoText == [text |-> "", diff |-> <<>>]

(* ------------------------------ GenerateDiff --------------------------- *)
\* json.RawMessage given to GenerateDiff: one that does not decode, or the
\* two texts
GenerateDiffInputs ==
    {[raw |-> "malformed"]}
    \cup {[raw |-> "valid", original_code |-> o, modified_code |-> m] :
             o \in Texts(MaxText), m \in Texts(MaxText)}

\* what GenerateDiff returns, with the calls of longestCommonSubsequence it
\* made: the two line sequences given to each
Diffed(res, err, calls) == [result |-> res, err |-> err, aligned |-> calls]

\* the test before the texts are split, as it would be if it never held
identicalNever(input) == FALSE

\* the test before the texts are split
identical(input) == input.original_code = input.modified_code

GenerateDiff(input) ==
    IF input.raw = "malformed" THEN Diffed(NoText, "unmarshal", <<>>)
    ELSE IF identical(input)
         THEN Diffed([text |-> "No differences found.", diff |-> <<>>], "nil",
                     <<>>)
         ELSE LET originalLines == Split(input.original_code)
                  modifiedLines == Split(input.modified_code)
                  l == longestCommonSubsequence(originalLines, modifiedLines)
              IN Diffed([text |-> "Diff:",
                         diff |-> walk(originalLines, modifiedLines, l)],
                        "nil", <<<<originalLines, modifiedLines>>>>)

(* ----------------------------- the file system ------------------------ *)
(* A path is the sequence of its elements: <<"d", "f">> is "d/f", <<>> is  *)
(* the empty string.  A node is absent, a directory or a regular file.     *)
Paths == {<<"f">>, <<"d">>, <<"d", "f">>}

absent == [kind |-> "none"]
directory == [kind |-> "dir"]
regular(data) == [kind |-> "file", data |-> data]

\* filepath.Dir: the path without its last element; <<>> stands for "."
Dir(path) == SubSeq(path, 1, Len(path) - 1)

\* the path and the directories above it
Prefixes(path) == {SubSeq(path, 1, k) : k \in 1..Len(path)}

\* the file systems whose regular files all hold data: every node that is
\* present lies in a directory
FileSystems(data) ==
    {f \in [Paths -> {absent, directory, regular(data)}] :
        \A p \in Paths :
           (f[p] # absent /\ Dir(p) # <<>>) => f[Dir(p)] = directory}

\* os.ReadFile
ReadFile(f, path) ==
    IF \E q \in Prefixes(Dir(path)) : f[q].kind = "file"
    THEN [data |-> <<>>, err |-> "ENOTDIR"]
    ELSE IF path \notin Paths \/ f[path] = absent
         THEN [data |-> <<>>, err |-> "ENOENT"]
         ELSE IF f[path] = directory
              THEN [data |-> <<>>, err |-> "EISDIR"]
              ELSE [data |-> f[path].data, err |-> "nil"]

\* os.IsNotExist
IsNotExist(err) == err = "ENOENT"

\* os.MkdirAll: makes dir and the directories above it that are missing
MkdirAll(f, dir) ==
    IF \E q \in Prefixes(dir) : f[q].kind = "file"
    THEN [fs |-> f, err |-> "ENOTDIR"]
    ELSE [fs |-> [p \in Paths |-> IF p \in Prefixes(dir) THEN directory
                                   ELSE f[p]],
          err |-> "nil"]

\* os.WriteFile: creates the file or replaces its content
WriteFile(f, path, data) ==
    IF \E q \in Prefixes(Dir(path)) : f[q].kind = "file"
    THEN [fs |-> f, err |-> "ENOTDIR"]
    ELSE IF path \notin Paths \/ \E q \in Prefixes(Dir(path)) : f[q] = absent
         THEN [fs |-> f, err |-> "ENOENT"]
         ELSE IF f[path] = directory
              THEN [fs |-> f, err |-> "EISDIR"]
              ELSE [fs |-> [f EXCEPT ![path] = regular(data)], err |-> "nil"]

(* -------------------------------- EditFile ----------------------------- *)
EditFileInputs ==
    {[raw |-> "malformed"]}
    \cup {[raw |-> "valid", path |-> p, old_str |-> o, new_str |-> n] :
             p \in Paths \cup {<<>>}, o \in Texts(MaxStr), n \in Texts(MaxStr)}

\* the first test after decoding, as it would be without the comparison of
\* old_str and new_str
invalidPathOnly(input) == input.path = <<>>

\* the first test after decoding
invalid(input) == input.path = <<>> \/ input.old_str = input.new_str

\* the test after the replacement, as it would be if it never held
notFoundNever(oldContent, newContent, old) == FALSE

\* the test after the replacement
notFound(oldContent, newContent, old) ==
    oldContent = newContent /\ old # <<>>

\* the lines written for a new file, as they would be if the loop wrote
\* nothing for an empty line
additionsSkipEmpty(lines) ==
    LET kept == SelectSeq(lines, LAMBDA line : line # <<>>)
    IN [k \in 1..Len(kept) |-> diffLine("+", kept[k])]

\* the lines written for a new file: a "+" for each line, followed by the
\* line unless it is empty
additions(lines) == [k \in 1..Len(lines) |-> diffLine("+", lines[k])]

\* what EditFile returns, with the file system it leaves, the functions
\* of package os it ran and the calls of longestCommonSubsequence it made
Edited(f, res, err, calls, lcsCalls) ==
    [fs |-> f, result |-> res, err |-> err, calls |-> calls,
     aligned |-> lcsCalls]

\* the branch for a file to create
createFile(f, input) ==
    LET dir == Dir(input.path)
        mk == IF dir # <<>> THEN MkdirAll(f, dir) ELSE [fs |-> f, err |-> "nil"]
        made == IF dir # <<>> THEN <<"ReadFile", "MkdirAll">> ELSE <<"ReadFile">>
        wr == WriteFile(mk.fs, input.path, input.new_str)
    IN IF mk.err # "nil"
       THEN Edited(mk.fs, NoText, "failed to create directory", made, <<>>)
       ELSE IF wr.err # "nil"
            THEN Edited(wr.fs, NoText, "failed to create file",
                        Append(made, "WriteFile"), <<>>)
            ELSE Edited(wr.fs,
                        [text |-> "Successfully created file",
                         diff |-> additions(Split(input.new_str))],
                        "nil", Append(made, "WriteFile"), <<>>)

\* the part after a successful read as it would be if it returned the
\* rendering without writing the file
replaceInDryRun(f, input, oldContent) ==
    LET newContent == Replace(oldContent, input.old_str, input.new_str)
        originalLines == Split(oldContent)
        modifiedLines == Split(newContent)
        l == longestCommonSubsequence(originalLines, modifiedLines)
    IN IF notFound(oldContent, newContent, input.old_str)
       THEN Edited(f, NoText, "old_str not found in file", <<"ReadFile">>,
                   <<>>)
       ELSE Edited(f,
                   [text |-> "File updated successfully.",
                    diff |-> walk(originalLines, modifiedLines, l)],
                   "nil", <<"ReadFile">>,
                   <<<<originalLines, modifiedLines>>>>)

\* the part after a successful read
replaceIn(f, input, oldContent) ==
    LET newContent == Replace(oldContent, input.old_str, input.new_str)
        originalLines == Split(oldContent)
        modifiedLines == Split(newContent)
        l == longestCommonSubsequence(originalLines, modifiedLines)
        wr == WriteFile(f, input.path, newContent)
    IN IF notFound(oldContent, newContent, input.old_str)
       THEN Edited(f, NoText, "old_str not found in file", <<"ReadFile">>,
                   <<>>)
       ELSE IF wr.err # "nil"
            THEN Edited(wr.fs, NoText, wr.err, <<"ReadFile", "WriteFile">>,
                        <<<<originalLines, modifiedLines>>>>)
            ELSE Edited(wr.fs,
                        [text |-> "File updated successfully.",
                         diff |-> walk(originalLines, modifiedLines, l)],
                        "nil", <<"ReadFile", "WriteFile">>,
                        <<<<originalLines, modifiedLines>>>>)

\* EditFile as it would be if it created the file after every read that
\* found nothing, whatever old_str holds
EditFileCreatesAlways(f, input) ==
    IF input.raw = "malformed" THEN Edited(f, NoText, "unmarshal", <<>>, <<>>)
    ELSE IF invalid(input)
         THEN Edited(f, NoText, "invalid input parameters", <<>>, <<>>)
    ELSE LET rd == ReadFile(f, input.path)
         IN IF rd.err # "nil"
            THEN IF IsNotExist(rd.err)
                 THEN createFile(f, input)
                 ELSE Edited(f, NoText, rd.err, <<"ReadFile">>, <<>>)
            ELSE replaceIn(f, input, rd.data)

EditFile(f, input) ==
    IF input.raw = "malformed" THEN Edited(f, NoText, "unmarshal", <<>>, <<>>)
    ELSE IF invalid(input)
         THEN Edited(f, NoText, "invalid input parameters", <<>>, <<>>)
    ELSE LET rd == ReadFile(f, input.path)
         IN IF rd.err # "nil"
            THEN IF IsNotExist(rd.err) /\ input.old_str = <<>>
                 THEN createFile(f, input)
                 ELSE Edited(f, NoText, rd.err, <<"ReadFile">>, <<>>)
            ELSE replaceIn(f, input, rd.data)

(* ------------------------------- RunCommand ---------------------------- *)
Commands == {"", "ls", "false"}

RunCommandInputs ==
    {[raw |-> "malformed"]}
    \cup {[raw |-> "valid", command |-> c] : c \in Commands}

\* how cmd.CombinedOutput() can end: the output captured and the error,
\* which is nil after exit status 0, an ExitError after another status, and
\* the error of the start when sh could not be started
CombinedOutputs ==
    {[started |-> TRUE, output |-> o, err |-> e] :
        o \in {"", "out"}, e \in {"nil", "exit status 1"}}
    \cup {[started |-> TRUE, output |-> "", err |-> "exec: not started"]}

\* whether RunCommand gets as far as running the command
Executes(input) == input.raw = "valid" /\ input.command # ""

\* RunCommand as it would be if it returned the error of the subprocess
RunCommandReturnsErr(input, out) ==
    IF input.raw = "malformed" THEN Return(<<>>, "unmarshal")
    ELSE IF input.command = "" THEN Return(<<>>, "command cannot be empty")
    ELSE IF out.err # "nil"
         THEN Return(<<>>, out.err)
         ELSE Return(<<"Command: ", input.command, "\n\n", "Output:\n",
                       out.output>>, "nil")

\* the result is the sequence of the strings written to the strings.Builder
RunCommand(input, out) ==
    IF input.raw = "malformed" THEN Return(<<>>, "unmarshal")
    ELSE IF input.command = "" THEN Return(<<>>, "command cannot be empty")
    ELSE IF out.err # "nil"
         THEN Return(<<"Command: ", input.command, "\n\n", "Output:\n",
                       out.output, "\nError: ", out.err, "\n">>, "nil")
         ELSE Return(<<"Command: ", input.command, "\n\n", "Output:\n",
                       out.output>>, "nil")

(* ------------------------- calls of the tool functions ----------------- *)
InitTools ==
    /\ tcall \in {[name |-> "edit_file", input |-> i] : i \in EditFileInputs}
                \cup {[name |-> "generate_diff", input |-> i] :
                         i \in GenerateDiffInputs}
                \cup {[name |-> "run_command", input |-> i] :
                         i \in RunCommandInputs}
    /\ fs \in IF tcall.name = "edit_file"
              THEN UNION {FileSystems(data) : data \in Texts(MaxText)}
              ELSE {[p \in Paths |-> absent]}
    /\ proc = [started |-> FALSE]
    /\ ret = [err |-> "none"]
    /\ osCalls = <<>>
    /\ aligned = <<>>
    /\ tpc = "called"
    /\ AgentIdle
    /\ DiffIdle

CallEditFile ==
    /\ tpc = "called"
    /\ tcall.name = "edit_file"
    /\ LET r == EditFile(fs, tcall.input)
       IN /\ fs' = r.fs
          /\ ret' = Return(r.result, r.err)
          /\ osCalls' = r.calls
          /\ aligned' = r.aligned
    /\ tpc' = "returned"
    /\ UNCHANGED <<tcall, proc>>
    /\ UNCHANGED <<agentVars, diffVars>>

CallGenerateDiff ==
    /\ tpc = "called"
    /\ tcall.name = "generate_diff"
    /\ LET r == GenerateDiff(tcall.input)
       IN /\ ret' = Return(r.result, r.err)
          /\ aligned' = r.aligned
    /\ tpc' = "returned"
    /\ UNCHANGED <<tcall, fs, proc, osCalls>>
    /\ UNCHANGED <<agentVars, diffVars>>

CallRunCommand ==
    /\ tpc = "called"
    /\ tcall.name = "run_command"
    /\ \E out \in CombinedOutputs :
          /\ proc' = IF Executes(tcall.input) THEN out ELSE proc
          /\ ret' = RunCommand(tcall.input, out)
    /\ tpc' = "returned"
    /\ UNCHANGED <<tcall, fs, osCalls, aligned>>
    /\ UNCHANGED <<agentVars, diffVars>>

NextTools ==
    \/ CallEditFile
    \/ CallGenerateDiff
    \/ CallRunCommand

SpecTools == InitTools /\ [][NextTools]_vars

(* ==================== properties of the diff engine ==================== *)
\* C10: for any two line sequences, the alignment returned by the
\* dynamic-programming longestCommonSubsequence is strictly increasing in the
\* original index and in the modified index, every index is within bounds,
\* and every entry pairs two equal lines.
C10_AlignmentIncreasing ==
    dpc = "aligned" =>
        /\ \A k \in 1..Len(lcs) :
              /\ lcs[k].originalIndex \in 0..(Len(dO) - 1)
              /\ lcs[k].modifiedIndex \in 0..(Len(dM) - 1)
              /\ dO[lcs[k].originalIndex + 1] = dM[lcs[k].modifiedIndex + 1]
        /\ \A k \in 1..(Len(lcs) - 1) :
              /\ lcs[k].originalIndex < lcs[k + 1].originalIndex
              /\ lcs[k].modifiedIndex < lcs[k + 1].modifiedIndex

\* an alignment of two lines between texts with a repeated line, an
\* unmatched original line and lines in a different order
C10_Witness ==
    /\ dpc = "aligned"
    /\ dO = <<"a", "b", "a">>
    /\ dM = <<"b", "a", "a">>
    /\ Len(lcs) = 2

\* C11: for any two line sequences, the alignment returned by the map-based
\* longestCommonSubsequence of the single-file program is strictly increasing
\* in the original index and in the modified index, and every entry pairs
\* two equal lines.
C11_MainAlignmentIncreasing ==
    dpc = "mainAligned" =>
        /\ \A k \in 1..Len(lcs) :
              dO[lcs[k].originalIndex + 1] = dM[lcs[k].modifiedIndex + 1]
        /\ \A k \in 1..(Len(lcs) - 1) :
              /\ lcs[k].originalIndex < lcs[k + 1].originalIndex
              /\ lcs[k].modifiedIndex < lcs[k + 1].modifiedIndex

\* the lines of a rendering that carry one of the signs
LinesSigned(r, signs) ==
    LET kept == SelectSeq(r, LAMBDA d : d.sign \in signs)
    IN [x \in 1..Len(kept) |-> kept[x].line]

\* C12: keeping the unchanged and the added lines of the rendering of
\* package tools in output order, and dropping the deleted lines, yields
\* exactly the modified lines.
C12_RoundTrip ==
    dpc = "rendered" => LinesSigned(rendering, {" ", "+"}) = dM

\* a rendering with a deleted, an unchanged and an added line
C12_Witness ==
    /\ dpc = "rendered"
    /\ dO = <<"a", "b">>
    /\ dM = <<"b", "c">>
    /\ rendering = <<diffLine("-", "a"), diffLine(" ", "b"), diffLine("+", "c")>>

\* the subsequence of s made of the elements at the indices in I
Pick(s, I) ==
    LET at == SelectSeq([k \in 1..Len(s) |-> k], LAMBDA k : k \in I)
    IN [x \in 1..Len(at) |-> s[at[x]]]

Subsequences(s) == {Pick(s, I) : I \in SUBSET (1..Len(s))}

\* the length of a longest common subsequence, by enumeration
LcsLength(s, t) ==
    LET common == Subsequences(s) \cap Subsequences(t)
    IN CHOOSE n \in 0..Len(s) :
          /\ \E c \in common : Len(c) = n
          /\ \A c \in common : Len(c) <= n

\* C13: the alignment of package tools has as many entries as a longest
\* common subsequence of the two line sequences has lines, and the rendering
\* has Len(O) + Len(M) minus twice that many deleted and added lines, the
\* fewest a rendering of O into M can have.
C13_AlignmentIsLongest ==
    /\ dpc \in {"aligned", "rendered"} => Len(lcs) = LcsLength(dO, dM)
    /\ dpc = "rendered" =>
          Len(LinesSigned(rendering, {"-", "+"}))
             = Len(dO) + Len(dM) - 2 * LcsLength(dO, dM)

\* two texts whose first lines match nothing and that share two lines
C13_Witness ==
    /\ dpc = "rendered"
    /\ dO = <<"a", "b", "c">>
    /\ dM = <<"c", "a", "b">>
    /\ Len(lcs) = 2
    /\ Len(rendering) = 4

ToolReturned(name) == tpc = "returned" /\ tcall.name = name

\* C15: when generate_diff is given an empty original text and a non-empty
\* modified text, every line of its rendering is an added line and the added
\* lines are the lines of the modified text: no line is deleted, none is
\* unchanged.
C15_NewFileAllAdditions ==
    (/\ ToolReturned("generate_diff")
     /\ tcall.input.raw = "valid"
     /\ tcall.input.original_code = <<>>
     /\ tcall.input.modified_code # <<>>)
       => /\ ret.err = "nil"
          /\ \A k \in 1..Len(ret.result.diff) : ret.result.diff[k].sign = "+"
          /\ LinesSigned(ret.result.diff, {"+"}) = Split(tcall.input.modified_code)

\* the request is one EditFile decodes
EditCalled == tcall.name = "edit_file" /\ tcall.input.raw = "valid"

\* EditFile is about to be called on an existing regular file
EditOfFile ==
    /\ tpc = "called"
    /\ EditCalled
    /\ tcall.input.path \in Paths
    /\ fs[tcall.input.path].kind = "file"

\* position p of str is the start of an instance of old
OccursAt(str, old, p) ==
    /\ p + Len(old) - 1 <= Len(str)
    /\ SubSeq(str, p, p + Len(old) - 1) = old

Occurs(str, old) == \E p \in 1..Len(str) : OccursAt(str, old, p)

\* C16: called on an existing file whose content does not contain the
\* non-empty old_str, EditFile fails with the error "old_str not found in
\* file" and leaves the whole file system as it was.
C16_NoMatchFails ==
    [][(/\ EditOfFile
        /\ tcall.input.old_str # <<>>
        /\ ~Occurs(fs[tcall.input.path].data, tcall.input.old_str))
          => /\ ret'.err = "old_str not found in file"
             /\ fs' = fs]_vars

\* C16, amended: the same, for a new_str that differs from old_str.
C16_NoMatchFailsForOtherNewStr ==
    [][(/\ EditOfFile
        /\ tcall.input.old_str # <<>>
        /\ tcall.input.old_str # tcall.input.new_str
        /\ ~Occurs(fs[tcall.input.path].data, tcall.input.old_str))
          => /\ ret'.err = "old_str not found in file"
             /\ fs' = fs]_vars

\* the call on "f" holding "aa" with old_str "\n" has returned the error
\* and a second file is still there
C16_Witness ==
    /\ ToolReturned("edit_file")
    /\ tcall.input.raw = "valid"
    /\ tcall.input.path = <<"f">>
    /\ tcall.input.old_str = <<"\n">>
    /\ tcall.input.new_str = <<"a">>
    /\ fs[<<"f">>] = regular(<<"a", "a">>)
    /\ fs[<<"d", "f">>] = regular(<<"a", "a">>)
    /\ ret.err = "old_str not found in file"

\* the starts of the instances of a non-empty old that a scan from the left
\* takes: instances that do not overlap, and every instance left out starts
\* inside one that is taken
Instances(str, old) ==
    CHOOSE P \in SUBSET (1..Len(str)) :
       /\ \A p \in P : OccursAt(str, old, p)
       /\ \A p, q \in P : p < q => p + Len(old) <= q
       /\ \A q \in 1..Len(str) :
             (OccursAt(str, old, q) /\ q \notin P)
                => \E p \in P : p < q /\ q < p + Len(old)

\* str with each of these instances of old replaced by new
Substituted(str, old, new) ==
    LET P == Instances(str, old)
        from[k \in 1..(Len(str) + 1)] ==
            IF k > Len(str) THEN <<>>
            ELSE IF k \in P THEN new \o from[k + Len(old)]
                 ELSE <<str[k]>> \o from[k + 1]
    IN from[1]

\* the rendering of the diff engine for two texts
DiffOf(old, new) ==
    walk(Split(old), Split(new), longestCommonSubsequence(Split(old), Split(new)))

\* the call succeeded and left the file at the path with content data, the
\* rest of the file system as it was, and returned the rendering of the
\* old content of the file against data
ReplacedBy(data) ==
    /\ ret'.err = "nil"
    /\ fs' = [fs EXCEPT ![tcall.input.path] = regular(data)]
    /\ ret'.result.diff = DiffOf(fs[tcall.input.path].data, data)

EditOfNothing ==
    /\ tpc = "called"
    /\ EditCalled
    /\ tcall.input.path \in Paths
    /\ fs[tcall.input.path] = absent
    /\ tcall.input.old_str = <<>>

\* the call succeeded, the directories above the path exist, the file holds
\* new_str, the rest of the file system is as it was, and the rendering is
\* one added line for each line of new_str and nothing else
Created ==
    /\ ret'.err = "nil"
    /\ fs' = [p \in Paths |->
                IF p = tcall.input.path THEN regular(tcall.input.new_str)
                ELSE IF p \in Prefixes(Dir(tcall.input.path)) THEN directory
                     ELSE fs[p]]
    /\ \A k \in 1..Len(ret'.result.diff) : ret'.result.diff[k].sign = "+"
    /\ LinesSigned(ret'.result.diff, {"+"}) = Split(tcall.input.new_str)

\* C18: called with an empty old_str and a new_str on a path that does not
\* exist, EditFile succeeds, creates the missing directories above the path
\* and the file, with new_str as its content, and its rendering has one
\* added line for each line of new_str and no other line.
C18_CreatesFile ==
    [][EditOfNothing => Created]_vars

\* C18, amended: the same, for a non-empty new_str and a path none of whose
\* parent directories is an existing regular file.
C18_CreatesFileFromNewStr ==
    [][(/\ EditOfNothing
        /\ tcall.input.new_str # <<>>
        /\ \A q \in Prefixes(Dir(tcall.input.path)) : fs[q].kind # "file")
          => Created]_vars

\* "d/f" was created with its directory "d", with an empty last line, next
\* to the file "f"
C18_Witness ==
    /\ ToolReturned("edit_file")
    /\ tcall.input.raw = "valid"
    /\ tcall.input.path = <<"d", "f">>
    /\ tcall.input.old_str = <<>>
    /\ tcall.input.new_str = <<"a", "\n">>
    /\ fs[<<"d">>] = directory
    /\ fs[<<"d", "f">>] = regular(<<"a", "\n">>)
    /\ fs[<<"f">>] = regular(<<"a", "a", "a">>)
    /\ ret.err = "nil"
    /\ ret.result.text = "Successfully created file"
    /\ ret.result.diff = <<diffLine("+", <<"a">>), diffLine("+", <<>>)>>

\* C19: whatever the file system holds, EditFile called with an empty path,
\* or with an old_str equal to new_str, fails with the error "invalid input
\* parameters", runs no function of package os and leaves the file system
\* as it was.
C19_InvalidInputTouchesNothing ==
    [][(/\ tpc = "called"
        /\ EditCalled
        /\ (tcall.input.path = <<>> \/ tcall.input.old_str = tcall.input.new_str))
          => /\ ret'.err = "invalid input parameters"
             /\ osCalls' = <<>>
             /\ fs' = fs]_vars

\* the call on the existing file "f" with old_str and new_str both "a",
\* which the file contains, has returned the error
C19_Witness ==
    /\ ToolReturned("edit_file")
    /\ tcall.input.raw = "valid"
    /\ tcall.input.path = <<"f">>
    /\ tcall.input.old_str = <<"a">>
    /\ tcall.input.new_str = <<"a">>
    /\ fs[<<"f">>] = regular(<<"a", "\n", "a">>)
    /\ ret.err = "invalid input parameters"
    /\ osCalls = <<>>

\* how executeTool sees what a tool function returned
OutcomeOf(r) == IF r.err = "nil" THEN "ok" ELSE "err"

\* the string is one of those the result is made of
Reports(res, str) == \E k \in 1..Len(res) : res[k] = str

\* C20: when the subprocess of a non-empty command exits with a status other
\* than 0 or cannot be started, RunCommand returns no error and a result
\* that holds the captured output and the failure, so that executeTool of
\* pkg/agent builds a tool_result whose error flag is false; RunCommand
\* returns an error only for input that does not decode or an empty command.
C20_FailureIsInResult ==
    ToolReturned("run_command") =>
        /\ (Executes(tcall.input) /\ proc.err # "nil") =>
              /\ ret.err = "nil"
              /\ Reports(ret.result, proc.output)
              /\ Reports(ret.result, "\nError: ")
              /\ Reports(ret.result, proc.err)
              /\ ~pkgExecuteTool(<<1, 1>>, "run_command", tcall.input.raw,
                                 OutcomeOf(ret)).isError
        /\ ret.err # "nil" =>
              (tcall.input.raw = "malformed" \/ tcall.input.command = "")

\* the command "false" wrote "out" and exited with status 1
C20_Witness ==
    /\ ToolReturned("run_command")
    /\ tcall.input.raw = "valid"
    /\ tcall.input.command = "false"
    /\ proc = [started |-> TRUE, output |-> "out", err |-> "exit status 1"]
    /\ ret.err = "nil"
    /\ Reports(ret.result, "exit status 1")

(* ==================== properties of runInference ======================= *)
\* the controlling path is inside runInference
InRunInference == pc \in {"select", "toolcalls"}

\* runInference was left by a panic: in pkg/agent a panic is raised only by
\* the loop over result.message.Content (the tools of package tools return
\* their failures), in the single-file program only by a tool, in Run
PanickedInRunInference == impl = "pkg" /\ pc = "panic"

\* C21: runInference returns as soon as the result is received: nothing is
\* dispatched or printed between the receipt and the return, and the exit
\* is a return; the progress line is clear whenever the controlling path is
\* outside runInference, after a success and after a failure; and once the
\* result is received the line is not painted again.
C21_ReturnsOnReceiptAndClears ==
    /\ []((InRunInference /\ result.received) => events = <<>>)
    /\ [](~PanickedInRunInference)
    /\ [](~InRunInference => indicator = "clear")
    /\ [][result.received => indicator' \in {indicator, "clear"}]_vars

\* the API call of the goroutine has not been received yet
InFlight == goroutine \in {"calling", "sending"}

\* C22: an inference call starts only when none is in flight; while a call
\* is in flight the controlling path waits in the select, and no step reads
\* the user, dispatches a tool or changes the conversation; tools are
\* dispatched one at a time, and when the next inference call or the next
\* prompt is due every tool_use block of the last response has been
\* dispatched.
C22_OneCallAtATime ==
    /\ [](InFlight => pc = "select")
    /\ [][nInfer' # nInfer => ~InFlight]_vars
    /\ [][(InFlight /\ InFlight')
            => /\ nPrompts' = nPrompts
               /\ events' = events
               /\ conversation' = conversation]_vars
    /\ [][Len(SelectSeq(events', IsDispatch)) <= Len(Dispatches) + 1]_vars
    /\ [](((pc = "infer" \/ AwaitingUserInput) /\ Handled)
            => IdsOf(Dispatches) = IdsOf(ToolUsesOf(response)))

\* the second call is in flight, a tick was taken, and the tools of the
\* first response were dispatched before
C22_Witness ==
    /\ goroutine = "sending"
    /\ nInfer = 2
    /\ ticks = 1
    /\ Len(Dispatches) = 2

\* C23: a step changes the conversation only by appending one message: the
\* messages it held stay at their positions, with their role and their
\* content blocks, and none is removed.
C23_ConversationAppendOnly ==
    [][\/ conversation' = conversation
       \/ /\ Len(conversation') = Len(conversation) + 1
          /\ SubSeq(conversation', 1, Len(conversation)) = conversation]_vars

\* pkg/agent after two turns, the first with a tool call: the instruction,
\* two user messages and two responses
C23_Witness ==
    /\ impl = "pkg"
    /\ pc = "loop"
    /\ Len(conversation) = 5
    /\ \E k \in 1..Len(conversation[3].content) :
          IsToolResult(conversation[3].content[k])

(* ================ further properties of the diff engine ================ *)
\* the table of the lengths of the longest common subsequences of the
\* prefixes of s and t, by enumeration
LengthTable(s, t) ==
    [i \in 0..Len(s), j \in 0..Len(t) |->
        LcsLength(SubSeq(s, 1, i), SubSeq(t, 1, j))]

RECURSIVE ReferenceBacktrack(_, _, _, _, _)
\* the pairs recorded by the backtrack from (i, j) down, in increasing order:
\* equal lines are recorded and both indices decrease; otherwise i decreases
\* when the table is strictly larger above, j in every other case
ReferenceBacktrack(s, t, T, i, j) ==
    IF i = 0 \/ j = 0 THEN <<>>
    ELSE IF s[i] = t[j]
         THEN Append(ReferenceBacktrack(s, t, T, i - 1, j - 1),
                     [originalIndex |-> i - 1, modifiedIndex |-> j - 1])
         ELSE IF T[i - 1, j] > T[i, j - 1]
              THEN ReferenceBacktrack(s, t, T, i - 1, j)
              ELSE ReferenceBacktrack(s, t, T, i, j - 1)

\* C24: the alignment returned by longestCommonSubsequence of package tools
\* is the one the reference backtrack records over the table of the lengths
\* of the longest common subsequences of the prefixes, started at (m, n).
C24_AlignmentIsReferenceBacktrack ==
    dpc \in {"aligned", "rendered"} =>
        lcs = ReferenceBacktrack(dO, dM, LengthTable(dO, dM), Len(dO), Len(dM))

\* a tie in the table at (2, 2), resolved by decreasing j: of the two
\* alignments of length one, the one of line "b" is returned
C24_Witness ==
    /\ dpc = "aligned"
    /\ dO = <<"a", "b">>
    /\ dM = <<"b", "a">>
    /\ lcs = <<commonLine(1, 0)>>

\* the positions of the unchanged lines in a rendering, in increasing order
UnchangedAt(r) ==
    SelectSeq([x \in 1..Len(r) |-> x], LAMBDA x : r[x].sign = " ")

\* the g-th gap of a rendering: what is written after the (g-1)-th unchanged
\* line and before the g-th, or to the end after the last one
Gap(r, g) ==
    LET at == UnchangedAt(r)
        from == IF g = 1 THEN 1 ELSE at[g - 1] + 1
        to == IF g <= Len(at) THEN at[g] - 1 ELSE Len(r)
    IN SubSeq(r, from, to)

\* the lines of s that lie strictly between the one matched by the (g-1)-th
\* pair and the one matched by the g-th pair (1-based positions p), or after
\* the last matched one
Between(s, p, g) ==
    LET from == IF g = 1 THEN 1 ELSE p[g - 1] + 1
        to == IF g <= Len(p) THEN p[g] - 1 ELSE Len(s)
    IN SubSeq(s, from, to)

\* C25: in the rendering of the walk, every gap between consecutive matched
\* pairs holds the deleted lines of the gap in their order in O, then the
\* added lines of the gap in their order in M, and the matched line follows
\* as unchanged; after the last matched pair come the remaining deleted lines
\* and then the remaining added lines.
C25_DeletionsBeforeAdditions ==
    dpc = "rendered" =>
        LET at == UnchangedAt(rendering)
            po == [k \in 1..Len(lcs) |-> lcs[k].originalIndex + 1]
            pm == [k \in 1..Len(lcs) |-> lcs[k].modifiedIndex + 1]
        IN /\ Len(at) = Len(lcs)
           /\ \A k \in 1..Len(lcs) : rendering[at[k]].line = dO[po[k]]
           /\ \A g \in 1..(Len(lcs) + 1) :
                 LET del == Between(dO, po, g)
                     ins == Between(dM, pm, g)
                 IN Gap(rendering, g) =
                        [x \in 1..Len(del) |-> [sign |-> "-", line |-> del[x]]]
                        \o [x \in 1..Len(ins) |-> [sign |-> "+", line |-> ins[x]]]

\* a deleted and an added line before the matched line, and again after it
C25_Witness ==
    /\ dpc = "rendered"
    /\ dO = <<"a", "b", "a">>
    /\ dM = <<"c", "b", "c">>
    /\ rendering = <<diffLine("-", "a"), diffLine("+", "c"), diffLine(" ", "b"),
                     diffLine("-", "a"), diffLine("+", "c")>>

(* ================= further properties of the tool functions ============ *)
\* C26: GenerateDiff and EditFile never give longestCommonSubsequence two
\* equal line sequences, that is, the lines of two equal texts: GenerateDiff
\* called with equal texts returns its message without a call of
\* longestCommonSubsequence, and EditFile calls it only with the lines of an
\* old and a new content that differ.
C26_EngineNeverGivenEqualTexts ==
    /\ [](\A k \in 1..Len(aligned) : aligned[k][1] # aligned[k][2])
    /\ []((/\ ToolReturned("generate_diff")
           /\ tcall.input.raw = "valid"
           /\ tcall.input.original_code = tcall.input.modified_code)
             => /\ aligned = <<>>
                /\ ret.err = "nil"
                /\ ret.result.text = "No differences found.")
    /\ [][(tpc = "called" /\ EditCalled /\ aligned' # <<>>)
             => /\ tcall.input.path \in Paths
                /\ fs[tcall.input.path].kind = "file"
                /\ fs'[tcall.input.path].kind = "file"
                /\ fs[tcall.input.path].data # fs'[tcall.input.path].data
                /\ aligned' = <<<<Split(fs[tcall.input.path].data),
                                  Split(fs'[tcall.input.path].data)>>>>]_vars

\* GenerateDiff has returned its message for two equal texts of two lines
C26_Witness ==
    /\ ToolReturned("generate_diff")
    /\ tcall.input.raw = "valid"
    /\ tcall.input.original_code = <<"a", "\n", "a">>
    /\ tcall.input.modified_code = <<"a", "\n", "a">>
    /\ aligned = <<>>
    /\ ret.result.text = "No differences found."

(* ================= the channel of runInference, with fairness ========== *)
\* the goroutine of a call goes from the API call to the send and from the
\* send to its end, and a new one is started only when none is running
GoroutineSteps ==
    {<<"none", "calling">>, <<"exited", "calling">>,
     <<"calling", "sending">>, <<"sending", "exited">>}

\* C27: in each call of runInference of package agent the goroutine sends
\* once and the controlling path receives once, what was sent; the send
\* always completes; and once Messages.New has returned, runInference
\* returns, however the ticks fall.
C27_SendCompletesAndReturns ==
    /\ [][goroutine' # goroutine => <<goroutine, goroutine'>> \in GoroutineSteps]_vars
    /\ [][(result' # result /\ result'.received)
             => /\ goroutine = "sending"
                /\ goroutine' = "exited"
                /\ ~result.received
                /\ result' = resultCh]_vars
    /\ (goroutine = "sending") ~> (goroutine = "exited")
    /\ (impl = "pkg" /\ goroutine = "sending")
          ~> (goroutine = "exited" /\ ~InRunInference /\ ~PanickedInRunInference)

(* ================= the conversation given to an inference call ========= *)
\* the message holds one tool_result for every tool_use of the content, in
\* the same order, and nothing else
ResultsOf(msg, content) ==
    /\ \A k \in 1..Len(msg.content) : IsToolResult(msg.content[k])
    /\ msg.content # <<>>
    /\ IdsOf(msg.content) = IdsOf(ToolUsesOf(content))

\* C28: in both programs every call of runInference is made with a
\* conversation that is not empty and ends with a user message; Run reaches
\* the call either by reading a line, which it appends as that message, or
\* without reading, and then that message holds the tool results of the
\* response before it.
C28_CallEndsWithUserMessage ==
    /\ [](pc = "infer" => /\ conversation # <<>>
                          /\ LastMessage.role = "user")
    /\ [][nInfer' # nInfer
            => /\ pc = "infer"
               /\ convAtCall' = conversation]_vars
    /\ [][(pc # "infer" /\ pc' = "infer")
            => \/ /\ nPrompts' = nPrompts + 1
                  /\ lastInput' = "line"
                  /\ conversation' =
                        Append(conversation, NewUserMessage(<<TextBlock>>))
               \/ /\ nPrompts' = nPrompts
                  /\ conversation' = conversation
                  /\ Len(conversation) >= 2
                  /\ conversation[Len(conversation) - 1] =
                        AssistantMessage(ToParam(response))
                  /\ ResultsOf(LastMessage, response)]_vars

\* the second call of the single-file program is about to be made with the
\* results of the two tools of the first response
C28_Witness ==
    /\ impl = "main"
    /\ pc = "infer"
    /\ nInfer = 1
    /\ nPrompts = 1
    /\ Len(conversation) = 3
    /\ Len(LastMessage.content) = 2
    /\ ResultsOf(LastMessage, response)

(* ================= the walk writes every line once ===================== *)
\* C29: the walk of package tools writes every line of O once, deleted or
\* unchanged, and every line of M once, added or unchanged: the rendering
\* has one unchanged line for each matched pair, one deleted line for each
\* other line of O and one added line for each other line of M, and keeping
\* the unchanged and the deleted lines in output order yields O.
C29_EveryLineOnce ==
    dpc = "rendered" =>
        /\ LinesSigned(rendering, {" ", "-"}) = dO
        /\ Len(LinesSigned(rendering, {" "})) = Len(lcs)
        /\ Len(LinesSigned(rendering, {"-"})) = Len(dO) - Len(lcs)
        /\ Len(LinesSigned(rendering, {"+"})) = Len(dM) - Len(lcs)
        /\ Len(LinesSigned(rendering, {" ", "+"})) = Len(dM)
        /\ \A k \in 1..Len(lcs) :
              /\ lcs[k].originalIndex \in 0..(Len(dO) - 1)
              /\ lcs[k].modifiedIndex \in 0..(Len(dM) - 1)

\* a line that occurs twice in O and once in M is written once as deleted
\* and once as unchanged
C29_Witness ==
    /\ dpc = "rendered"
    /\ dO = <<"a", "b", "a">>
    /\ dM = <<"a", "c">>
    /\ Len(rendering) = 4
    /\ LinesSigned(rendering, {" ", "-"}) = dO
    /\ LinesSigned(rendering, {"-"}) = <<"a", "b">>
    /\ LinesSigned(rendering, {" "}) = <<"a">>

(* ================= EditFile with an empty old_str ====================== *)
\* str with new before each of its characters and once more at its end:
\* blocks of new followed by one character of str, and new as the last block
Inserted(str, new) ==
    LET block == Len(new) + 1
    IN [p \in 1..(Len(str) * block + Len(new)) |->
           IF (p - 1) % block < Len(new)
           THEN new[((p - 1) % block) + 1]
           ELSE str[((p - 1) \div block) + 1]]

EditOfMissing ==
    /\ tpc = "called"
    /\ EditCalled
    /\ tcall.input.path \in Paths
    /\ fs[tcall.input.path] = absent
    /\ tcall.input.old_str # <<>>

\* the call failed with the error of os.ReadFile, ran no other function of
\* package os and left the file system as it was
FailedOnRead ==
    /\ ret'.err \in {"ENOENT", "ENOTDIR"}
    /\ ret'.err = ReadFile(fs, tcall.input.path).err
    /\ osCalls' = <<"ReadFile">>
    /\ fs' = fs

\* a call of EditFile makes a file or a directory only with an empty old_str
CreatesOnlyOnEmptyOldStr ==
    (/\ tpc = "called"
     /\ EditCalled
     /\ \E p \in Paths : fs[p] = absent /\ fs'[p] # absent)
       => tcall.input.old_str = <<>>

====
